---- MODULE Spec2Model ----
(***************************************************************************)
(* Model of point-cloud-box-detection/setup.py: the packaging manifest of  *)
(* the distribution ply_processor.  The manifest is a straight-line        *)
(* script: it imports setup and find_packages, evaluates the keyword       *)
(* arguments (among them find_packages()) and calls setup() once.  The     *)
(* build tool that runs the script, the project root it runs in, the       *)
(* process environment, the Python runtime and the package index are the   *)
(* script's environment; they are inputs, drawn from small sets.           *)
(*                                                                         *)
(* Strings the tools parse (requirement and version specifiers) are        *)
(* sequences of one-character strings, so that parsing is computed.        *)
(***************************************************************************)
EXTENDS Integers, Sequences, FiniteSets, TLC

VARIABLES
    projectDirs,   \* directories under the project root, as paths
    initFiles,     \* the directories that hold an __init__.py
    environ,       \* the process environment of the evaluation
    runtime,       \* the version of the Python runtime, a release tuple
    pc,            \* position of the script: idle, import, args, call, exit, done
    trace,         \* the calls this evaluation has made, in order
    found,         \* value of find_packages() once line 6 is evaluated
    dist,          \* the package descriptor setup() produced, or NoDist
    install,       \* the installer's progress on the descriptor
    commands,      \* executable commands installed on the system
    history,       \* the versions resolved by each finished installation
    evals          \* evaluations of the script started so far

vars == <<projectDirs, initFiles, environ, runtime, pc, trace, found, dist,
          install, commands, history, evals>>

world == <<projectDirs, initFiles, environ, runtime>>

(***************************************************************************)
(* Bounds of the model.                                                    *)
(***************************************************************************)
MaxEvals == 2

\* Directories that may exist under the project root.
AllDirs ==
    { <<"ply_processor">>,
      <<"ply_processor", "utils">>,
      <<"ply_processor", "utils", "io">>,
      <<"tests">> }

EnvNames == {"PLY_NAME"}
EnvValues == {"", "other"}

\* Python runtimes the installer may run on.
Runtimes ==
    { <<2, 7, 18>>, <<3, 5, 9>>, <<3, 6, 0>>, <<3, 6, 15>>, <<3, 10, 4>>,
      <<4, 0, 0>> }

(***************************************************************************)
(* Text helpers.                                                           *)
(***************************************************************************)
DigitChars == <<"0", "1", "2", "3", "4", "5", "6", "7", "8", "9">>

DigitVal(c) == (CHOOSE i \in 1..Len(DigitChars) : DigitChars[i] = c) - 1

RECURSIVE JoinChars(_)
JoinChars(cs) ==
    IF cs = <<>> THEN "" ELSE Head(cs) \o JoinChars(Tail(cs))

RECURSIVE ParseInt(_)
ParseInt(cs) ==
    IF cs = <<>> THEN 0
    ELSE 10 * ParseInt(SubSeq(cs, 1, Len(cs) - 1)) + DigitVal(cs[Len(cs)])

\* The pieces of cs between occurrences of sep.
RECURSIVE SplitOn(_, _)
SplitOn(cs, sep) ==
    IF \A i \in 1..Len(cs) : cs[i] # sep THEN <<cs>>
    ELSE LET k == CHOOSE i \in 1..Len(cs) :
                      cs[i] = sep /\ \A j \in 1..(i - 1) : cs[j] # sep
         IN  <<SubSeq(cs, 1, k - 1)>> \o SplitOn(SubSeq(cs, k + 1, Len(cs)), sep)

(***************************************************************************)
(* Versions and version specifiers, as the installer evaluates them.       *)
(* A version is its release tuple; a shorter tuple is padded with zeros.   *)
(***************************************************************************)
ParseVersion(cs) ==
    LET parts == SplitOn(cs, ".")
    IN  [i \in 1..Len(parts) |-> ParseInt(parts[i])]

Component(v, i) == IF i <= Len(v) THEN v[i] ELSE 0

RECURSIVE CmpFrom(_, _, _)
CmpFrom(v, w, i) ==
    IF i > Len(v) /\ i > Len(w) THEN 0
    ELSE IF Component(v, i) < Component(w, i) THEN -1
    ELSE IF Component(v, i) > Component(w, i) THEN 1
    ELSE CmpFrom(v, w, i + 1)

VersionCmp(v, w) == CmpFrom(v, w, 1)

OpChars == {"=", "<", ">", "!", "~"}

\* Index of the first character of cs at or after i that is (not) an
\* operator character; Len(cs) + 1 when there is none.
FirstAt(cs, i, inOps) ==
    LET hits == {k \in i..Len(cs) : (cs[k] \in OpChars) = inOps}
    IN  IF hits = {} THEN Len(cs) + 1
        ELSE CHOOSE k \in hits : \A j \in hits : k <= j

\* One clause of a specifier set, such as >=3.6 or ==1.26.4.
ParseSpecifier(cs) ==
    LET e == FirstAt(cs, 1, FALSE)
    IN  [op |-> JoinChars(SubSeq(cs, 1, e - 1)),
         version |-> ParseVersion(SubSeq(cs, e, Len(cs)))]

\* A comma-separated specifier set; the empty text is the empty set.
ParseSpecifierSet(cs) ==
    IF cs = <<>> THEN {}
    ELSE LET parts == SplitOn(cs, ",")
         IN  {ParseSpecifier(parts[i]) : i \in 1..Len(parts)}

Satisfies(v, clause) ==
    LET c == VersionCmp(v, clause.version)
    IN  CASE clause.op = "==" -> c = 0
          [] clause.op = "!=" -> c # 0
          [] clause.op = ">=" -> c >= 0
          [] clause.op = "<=" -> c <= 0
          [] clause.op = ">"  -> c > 0
          [] clause.op = "<"  -> c < 0
          [] OTHER -> FALSE

SatisfiesAll(v, clauses) == \A clause \in clauses : Satisfies(v, clause)

\* Project names compare after normalisation of their separators.
NormChar(c) == IF c \in {"_", "."} THEN "-" ELSE c

\* A requirement: a project name followed by an optional specifier set.
ParseRequirement(cs) ==
    LET s == FirstAt(cs, 1, TRUE)
        nm == SubSeq(cs, 1, s - 1)
    IN  [project |-> JoinChars([i \in 1..Len(nm) |-> NormChar(nm[i])]),
         specs |-> ParseSpecifierSet(SubSeq(cs, s, Len(cs)))]

(***************************************************************************)
(* The manifest: the keyword arguments of the setup() call.                *)
(***************************************************************************)
\* A manifest that takes the distribution name from the environment.
name_from_environ ==
    IF environ["PLY_NAME"] # "" THEN environ["PLY_NAME"] ELSE "ply_processor"

name == "ply_processor"

version == "0.1.0"

\* A manifest that gives numpy a lower bound instead of a pin.
install_requires_unpinned ==
    << <<"o", "p", "e", "n", "3", "d", "=", "=", "0", ".", "1", "8", ".", "0">>,
       <<"n", "u", "m", "p", "y", ">", "=", "1", ".", "2", "6", ".", "4">>,
       <<"m", "a", "t", "p", "l", "o", "t", "l", "i", "b", "=", "=", "3", ".", "9", ".", "2">>,
       <<"m", "a", "t", "p", "l", "o", "t", "l", "i", "b", "-", "i", "n", "l", "i", "n", "e", "=", "=", "0", ".", "1", ".", "7">> >>

\* A manifest that requires matplotlib twice, with different pins.
install_requires_duplicate ==
    << <<"o", "p", "e", "n", "3", "d", "=", "=", "0", ".", "1", "8", ".", "0">>,
       <<"n", "u", "m", "p", "y", "=", "=", "1", ".", "2", "6", ".", "4">>,
       <<"m", "a", "t", "p", "l", "o", "t", "l", "i", "b", "=", "=", "3", ".", "9", ".", "2">>,
       <<"m", "a", "t", "p", "l", "o", "t", "l", "i", "b", "=", "=", "3", ".", "9", ".", "1">> >>

install_requires ==
    << <<"o", "p", "e", "n", "3", "d", "=", "=", "0", ".", "1", "8", ".", "0">>,
       <<"n", "u", "m", "p", "y", "=", "=", "1", ".", "2", "6", ".", "4">>,
       <<"m", "a", "t", "p", "l", "o", "t", "l", "i", "b", "=", "=", "3", ".", "9", ".", "2">>,
       <<"m", "a", "t", "p", "l", "o", "t", "l", "i", "b", "-", "i", "n", "l", "i", "n", "e", "=", "=", "0", ".", "1", ".", "7">> >>

author == "Chen Xu"

author_email == "cxu.self@gmail.com"

description ==
    "A module for processing point clouds with plane fitting and bounding boxes"

classifiers ==
    << "Programming Language :: Python :: 3",
       "Operating System :: OS Independent" >>

\* A manifest whose runtime bound is exclusive.
python_requires_exclusive == <<">", "3", ".", "6">>

python_requires == <<">", "=", "3", ".", "6">>

(***************************************************************************)
(* find_packages(): a walk of the project root.  A directory is yielded    *)
(* when it holds an __init__.py, and only a yielded directory is           *)
(* descended into.  Called without arguments: where is the project root,   *)
(* every name is included and none is excluded.                            *)
(***************************************************************************)
Children(root) ==
    {d \in projectDirs : Len(d) = Len(root) + 1 /\ SubSeq(d, 1, Len(root)) = root}

looks_like_package(d) == d \in initFiles

\* rel_path.replace(os.path.sep, '.')
RECURSIVE Dotted(_)
Dotted(d) ==
    IF Len(d) = 1 THEN d[1]
    ELSE Dotted(SubSeq(d, 1, Len(d) - 1)) \o "." \o d[Len(d)]

RECURSIVE Walk(_)
Walk(root) ==
    UNION { IF looks_like_package(d) THEN {Dotted(d)} \cup Walk(d) ELSE {} :
            d \in Children(root) }

\* A discovery that yields every directory, package or not.
find_every_directory == {Dotted(d) : d \in projectDirs}

find_packages == Walk(<<>>)

(***************************************************************************)
(* setup(): the descriptor        built from the keyword arguments.  A     *)
(* keyword the manifest does not pass keeps its empty default.             *)
(***************************************************************************)
\* A manifest that also declares a console script.
SetupKeywordsWithEntryPoint ==
    [name |-> name,
     version |-> version,
     packages |-> found,
     install_requires |-> install_requires,
     author |-> author,
     author_email |-> author_email,
     description |-> description,
     classifiers |-> classifiers,
     python_requires |-> python_requires,
     entry_points |-> {"ply-process"}]

SetupKeywords ==
    [name |-> name,
     version |-> version,
     packages |-> found,
     install_requires |-> install_requires,
     author |-> author,
     author_email |-> author_email,
     description |-> description,
     classifiers |-> classifiers,
     python_requires |-> python_requires]

Keyword(attrs, key, default) ==
    IF key \in DOMAIN attrs THEN attrs[key] ELSE default

setup(attrs) ==
    [name |-> Keyword(attrs, "name", "UNKNOWN"),
     version |-> Keyword(attrs, "version", "0.0.0"),
     packages |-> Keyword(attrs, "packages", {}),
     install_requires |-> Keyword(attrs, "install_requires", <<>>),
     python_requires |-> Keyword(attrs, "python_requires", <<>>),
     author |-> Keyword(attrs, "author", ""),
     author_email |-> Keyword(attrs, "author_email", ""),
     description |-> Keyword(attrs, "description", ""),
     classifiers |-> Keyword(attrs, "classifiers", <<>>),
     entry_points |-> Keyword(attrs, "entry_points", {}),
     scripts |-> Keyword(attrs, "scripts", {}),
     package_data |-> Keyword(attrs, "package_data", {}),
     data_files |-> Keyword(attrs, "data_files", {})]

NoDist == [name |-> "<none>"]

NotFound == {"<not evaluated>"}

NoInstall == [status |-> "none", resolved |-> <<>>, blocked |-> {}]

(***************************************************************************)
(* The installer.  It admits the runtime against python_requires, then     *)
(* resolves each required project to the latest release of the index that  *)
(* satisfies every specifier on the project and supports the runtime.      *)
(***************************************************************************)
\* Releases of the required projects the index may hold.
IndexVersions ==
    [p \in {"open3d", "numpy", "matplotlib", "matplotlib-inline"} |->
        CASE p = "open3d" -> {<<0, 17, 0>>, <<0, 18, 0>>, <<0, 19, 0>>}
          [] p = "numpy" -> {<<1, 26, 3>>, <<1, 26, 4>>, <<2, 0, 0>>}
          [] p = "matplotlib" -> {<<3, 9, 1>>, <<3, 9, 2>>, <<3, 9, 3>>}
          [] p = "matplotlib-inline" -> {<<0, 1, 6>>, <<0, 1, 7>>, <<0, 2, 1>>}]

\* Lowest runtime a project's releases may declare to support.
RuntimeFloors == {<<3, 6>>, <<3, 9>>}

RuntimeAdmitted(d) ==
    SatisfiesAll(runtime, ParseSpecifierSet(d.python_requires))

Requirements(d) ==
    {ParseRequirement(d.install_requires[i]) : i \in 1..Len(d.install_requires)}

Latest(vs) == CHOOSE v \in vs : \A w \in vs : VersionCmp(v, w) >= 0

\* The releases of p on the index at the time of an installation: the
\* newest release may not be published yet.
Published(p, newest) ==
    IF p \notin DOMAIN IndexVersions THEN {}
    ELSE IF newest THEN IndexVersions[p]
    ELSE IndexVersions[p] \ {Latest(IndexVersions[p])}

\* The published releases of project p that satisfy every requirement on p.
Candidates(reqs, p, newest) ==
    {v \in Published(p, newest) :
        \A r \in reqs : r.project = p => SatisfiesAll(v, r.specs)}

\* A release supports the runtime when the runtime is at or above its floor.
Supported(floor) == VersionCmp(runtime, floor) >= 0

ConsoleScripts(d) == d.entry_points \cup d.scripts

(***************************************************************************)
(* Initial states: any project root, environment and runtime; no           *)
(* evaluation has started.                                                 *)
(***************************************************************************)
PrefixClosed(ds) ==
    \A d \in ds : Len(d) > 1 => SubSeq(d, 1, Len(d) - 1) \in ds

Init ==
    /\ projectDirs \in {ds \in SUBSET AllDirs : PrefixClosed(ds)}
    /\ initFiles \in SUBSET projectDirs
    /\ environ \in [EnvNames -> EnvValues]
    /\ runtime \in Runtimes
    /\ pc = "idle"
    /\ trace = <<>>
    /\ found = NotFound
    /\ dist = NoDist
    /\ install = NoInstall
    /\ commands = {}
    /\ history = <<>>
    /\ evals = 0

(***************************************************************************)
(* The evaluation of the script.                                           *)
(***************************************************************************)
\* The build tool starts a fresh interpreter on setup.py.
Invoke ==
    /\ pc \in {"idle", "done"}
    /\ evals < MaxEvals
    /\ pc' = "import"
    /\ evals' = evals + 1
    /\ trace' = <<>>
    /\ found' = NotFound
    /\ dist' = NoDist
    /\ install' = NoInstall
    /\ UNCHANGED <<world, commands, history>>

\* Line 1: from setuptools import setup, find_packages
Import ==
    /\ pc = "import"
    /\ pc' = "args"
    /\ trace' = Append(trace, "import")
    /\ UNCHANGED <<world, found, dist, install, commands, history, evals>>

\* Lines 4-20: the keyword arguments are evaluated; line 6 calls
\* find_packages().
EvalArgs ==
    /\ pc = "args"
    /\ found' = find_packages
    /\ pc' = "call"
    /\ trace' = Append(trace, "find_packages")
    /\ UNCHANGED <<world, dist, install, commands, history, evals>>

\* A script that calls setup() a second time.
CallSetupTwice ==
    /\ pc = "call"
    /\ dist' = setup(SetupKeywords)
    /\ pc' = "exit"
    /\ trace' = trace \o <<"setup", "setup">>
    /\ UNCHANGED <<world, found, install, commands, history, evals>>

\* Lines 3-21: the setup() call.
CallSetup ==
    /\ pc = "call"
    /\ dist' = setup(SetupKeywords)
    /\ pc' = "exit"
    /\ trace' = Append(trace, "setup")
    /\ UNCHANGED <<world, found, install, commands, history, evals>>

\* End of file: the interpreter exits.
Exit ==
    /\ pc = "exit"
    /\ pc' = "done"
    /\ UNCHANGED <<world, trace, found, dist, install, commands, history, evals>>

(***************************************************************************)
(* Installation of the descriptor.                                         *)
(***************************************************************************)
CheckPython ==
    /\ pc = "done"
    /\ install.status = "none"
    /\ install' = [install EXCEPT
                     !.status = IF RuntimeAdmitted(dist) THEN "accepted"
                                ELSE "rejected"]
    /\ UNCHANGED <<world, pc, trace, found, dist, commands, history, evals>>

Resolve ==
    /\ pc = "done"
    /\ install.status = "accepted"
    /\ \E reqs \in {Requirements(dist)}, newest \in BOOLEAN :
       \E cands \in {[p \in {r.project : r \in reqs} |->
                         Candidates(reqs, p, newest)]} :
       \E floors \in [DOMAIN cands -> RuntimeFloors] :
         LET blocked == {p \in DOMAIN cands :
                           cands[p] = {} \/ ~Supported(floors[p])}
             picked == [p \in DOMAIN cands \ blocked |-> Latest(cands[p])]
         IN  IF blocked = {}
             THEN /\ install' = [status |-> "installed", resolved |-> picked,
                                 blocked |-> {}]
                  /\ commands' = commands \cup ConsoleScripts(dist)
                  /\ history' = Append(history, picked)
             ELSE /\ install' = [status |-> "failed", resolved |-> <<>>,
                                 blocked |-> blocked]
                  /\ UNCHANGED <<commands, history>>
    /\ UNCHANGED <<world, pc, trace, found, dist, evals>>

Next ==
    \/ Invoke
    \/ Import
    \/ EvalArgs
    \/ CallSetup
    \/ Exit
    \/ CheckPython
    \/ Resolve

Spec == Init /\ [][Next]_vars

\* The interpreter runs the script to its end once started.
FairSpec ==
    /\ Spec
    /\ WF_vars(Import)
    /\ WF_vars(EvalArgs)
    /\ WF_vars(CallSetup)
    /\ WF_vars(Exit)

TypeOK ==
    /\ pc \in {"idle", "import", "args", "call", "exit", "done"}
    /\ evals \in 0..MaxEvals
    /\ install.status \in {"none", "accepted", "rejected", "installed", "failed"}

(***************************************************************************)
(* Properties.                                                             *)
(***************************************************************************)
Produced == dist # NoDist

Pin(v) == {[op |-> "==", version |-> v]}

\* The four pins the manifest is said to declare.
ExpectedRequirements ==
    { [project |-> "open3d", specs |-> Pin(<<0, 18, 0>>)],
      [project |-> "numpy", specs |-> Pin(<<1, 26, 4>>)],
      [project |-> "matplotlib", specs |-> Pin(<<3, 9, 2>>)],
      [project |-> "matplotlib-inline", specs |-> Pin(<<0, 1, 7>>)] }

\* C1: the descriptor's install_requires has exactly four entries, which
\* parse to open3d ==0.18.0, numpy ==1.26.4, matplotlib ==3.9.2 and
\* matplotlib-inline ==0.1.7, each with the single operator ==; and a
\* finished installation has resolved exactly these four versions.
C1_ExactPins ==
    /\ Produced =>
         /\ Len(dist.install_requires) = 4
         /\ Requirements(dist) = ExpectedRequirements
    /\ install.status = "installed" =>
         /\ DOMAIN install.resolved =
              {"open3d", "numpy", "matplotlib", "matplotlib-inline"}
         /\ install.resolved["open3d"] = <<0, 18, 0>>
         /\ install.resolved["numpy"] = <<1, 26, 4>>
         /\ install.resolved["matplotlib"] = <<3, 9, 2>>
         /\ install.resolved["matplotlib-inline"] = <<0, 1, 7>>

C1_Witness ==
    /\ install.status = "installed"
    /\ Cardinality(DOMAIN install.resolved) = 4

\* The directories importable from the project root: those whose every
\* ancestor up to the root, and the directory itself, hold an __init__.py.
Importable ==
    {d \in projectDirs : \A k \in 1..Len(d) : SubSeq(d, 1, k) \in initFiles}

RuntimeBelow36 == runtime[1] * 1000 + runtime[2] < 3006

\* C3: once the installer has checked the runtime, the installation is
\* rejected exactly when the runtime is older than 3.6, and the descriptor's
\* python_requires is the single clause >=3.6, so it states no upper bound.
C3_MinimumRuntime ==
    /\ Produced =>
         ParseSpecifierSet(dist.python_requires) =
             {[op |-> ">=", version |-> <<3, 6>>]}
    /\ install.status # "none" =>
         ((install.status = "rejected") <=> RuntimeBelow36)

C3_Witness ==
    /\ install.status = "accepted"
    /\ runtime = <<3, 6, 0>>

\* C4: every descriptor produced has name ply_processor and version 0.1.0,
\* whatever the project root, the environment and the discovered packages.
C4_Identity ==
    Produced => dist.name = "ply_processor" /\ dist.version = "0.1.0"

C4_Witness ==
    /\ Produced
    /\ environ["PLY_NAME"] = "other"
    /\ dist.packages # {}
    /\ evals = 2

ScriptCalls == <<"import", "find_packages", "setup">>

\* C5: the calls of an evaluation are always a prefix of import,
\* find_packages, setup, so setup() is called at most once and only after
\* find_packages() returned; when the script has ended it has made exactly
\* these calls; and a started evaluation always reaches its end.
C5_RunsOnce ==
    /\ [](/\ Len(trace) <= Len(ScriptCalls)
          /\ trace = SubSeq(ScriptCalls, 1, Len(trace))
          /\ (pc \in {"exit", "done"} <=> trace = ScriptCalls)
          /\ (Produced <=> trace = ScriptCalls))
    /\ (pc = "import") ~> (pc = "done")

C5_Witness ==
    /\ pc = "done"
    /\ evals = 2
    /\ trace = ScriptCalls

\* What a step of the script leaves alone.
ScriptFrame == UNCHANGED <<world, install, commands, history, evals>>

C7_ConsistentRuntime ==
    install.status # "failed"

\* C8: no two entries of install_requires name the same project, each
\* required project has exactly one admissible release on the index, and
\* all finished installations have resolved the same versions.
C8_ConflictFree ==
    /\ Produced =>
         \A reqs \in {Requirements(dist)} :
            /\ Cardinality({r.project : r \in reqs}) = Len(dist.install_requires)
            /\ \A r \in reqs : \A newest \in BOOLEAN :
                   Cardinality(Candidates(reqs, r.project, newest)) = 1
    /\ \A i, j \in 1..Len(history) : history[i] = history[j]

C8_Witness ==
    /\ Len(history) = 2
    /\ install.status = "installed"

====
